---- MODULE Spec2Model ----
(***************************************************************************)
(* A model of the vault index of obsidigen (src/src/vault/indexer.ts):     *)
(* the page catalog, the title / alias resolution tables and the link      *)
(* graph, as maintained by build(), updateFile() and removeFile(), and     *)
(* read by getSlug(), getPage(), getBacklinks(), getForwardLinks(),        *)
(* search() and getGraphData().                                            *)
(*                                                                         *)
(* A JavaScript string is a sequence of one-character strings, so that     *)
(* toLowerCase, trim, split, encodeURIComponent ... are computed and not   *)
(* assumed.  A JavaScript Map that the code iterates (pages) is a sequence *)
(* in insertion order; the other Maps are functions on their key set.      *)
(*                                                                         *)
(* The module also models the daemon (src/src/commands/daemon.ts) that     *)
(* supervises the server and tunnel processes of the registered vaults.    *)
(***************************************************************************)
EXTENDS Integers, Sequences, FiniteSets, TLC

VARIABLES pages, slugToPath, aliasToSlug, titleToSlug, backlinks, forwardLinks,
          phase, pending, last, handled,
          daemonUp, vaultDir, runningVaults, tunnelUp, restartTimers, tunnelTimers

vars == <<pages, slugToPath, aliasToSlug, titleToSlug, backlinks, forwardLinks,
          phase, pending, last, handled,
          daemonUp, vaultDir, runningVaults, tunnelUp, restartTimers, tunnelTimers>>

\* The state of the index and of its watcher, and the state of the daemon
\* (src/src/commands/daemon.ts), which is a different process.
ivars == <<pages, slugToPath, aliasToSlug, titleToSlug, backlinks, forwardLinks,
           phase, pending, handled>>
dvars == <<daemonUp, vaultDir, runningVaults, tunnelUp, restartTimers, tunnelTimers>>

----------------------------------------------------------------------------
(* Strings *)

SetMin(S) == CHOOSE x \in S : \A y \in S : x <= y
SetMax(S) == CHOOSE x \in S : \A y \in S : y <= x

\* String.prototype.toLowerCase on the alphabet of the model.
LowerChar(c) ==
    CASE c = "A" -> "a"
      [] c = "S" -> "s"
      [] c = "D" -> "d"
      [] c = "F" -> "f"
      [] OTHER -> c

toLowerCase(s) == [i \in 1..Len(s) |-> LowerChar(s[i])]

\* String.prototype.trim (the only white space of the alphabet is " ").
trim(s) ==
    LET keep == {i \in 1..Len(s) : s[i] # " "}
    IN  IF keep = {} THEN <<>> ELSE SubSeq(s, SetMin(keep), SetMax(keep))

\* s.replace(/\s+/g, '%20'): every maximal run of white space becomes %20.
RECURSIVE ReplaceWsRuns(_)
ReplaceWsRuns(s) ==
    IF s = <<>> THEN <<>>
    ELSE IF Head(s) = " "
         THEN IF Len(s) > 1 /\ s[2] = " "
              THEN ReplaceWsRuns(Tail(s))
              ELSE <<"%", "2", "0">> \o ReplaceWsRuns(Tail(s))
         ELSE <<Head(s)>> \o ReplaceWsRuns(Tail(s))

\* s.replace(/%20/g, ' ')
RECURSIVE ReplacePct20(_)
ReplacePct20(s) ==
    IF s = <<>> THEN <<>>
    ELSE IF Len(s) >= 3 /\ SubSeq(s, 1, 3) = <<"%", "2", "0">>
         THEN <<" ">> \o ReplacePct20(SubSeq(s, 4, Len(s)))
         ELSE <<Head(s)>> \o ReplacePct20(Tail(s))

\* s.replace(/\\/g, '/')
ReplaceBackslash(s) == [i \in 1..Len(s) |-> IF s[i] = "\\" THEN "/" ELSE s[i]]

\* s.split('/')
RECURSIVE SplitSlash(_)
SplitSlash(s) ==
    LET cuts == {i \in 1..Len(s) : s[i] = "/"}
    IN  IF cuts = {} THEN <<s>>
        ELSE LET i == SetMin(cuts)
             IN  <<SubSeq(s, 1, i - 1)>> \o SplitSlash(SubSeq(s, i + 1, Len(s)))

\* parts.join('/')
RECURSIVE JoinSlash(_)
JoinSlash(parts) ==
    IF parts = <<>> THEN <<>>
    ELSE IF Len(parts) = 1 THEN parts[1]
         ELSE parts[1] \o <<"/">> \o JoinSlash(Tail(parts))

\* encodeURIComponent: letters, digits and "." are left alone, every other
\* character of the alphabet is percent-escaped.
EncodeChar(c) ==
    CASE c = " "  -> <<"%", "2", "0">>
      [] c = "%"  -> <<"%", "2", "5">>
      [] c = "/"  -> <<"%", "2", "F">>
      [] c = "\\" -> <<"%", "5", "C">>
      [] OTHER    -> <<c>>

RECURSIVE encodeURIComponent(_)
encodeURIComponent(s) ==
    IF s = <<>> THEN <<>> ELSE EncodeChar(Head(s)) \o encodeURIComponent(Tail(s))

\* decodeURIComponent: [ok |-> FALSE] is the URIError raised for a "%" that
\* does not start an escape sequence.
DecodePair(a, b) ==
    CASE a = "2" /\ b = "0" -> " "
      [] a = "2" /\ b = "5" -> "%"
      [] a = "2" /\ b = "F" -> "/"
      [] a = "5" /\ b = "C" -> "\\"
      [] OTHER -> "?"

RECURSIVE decodeURIComponent(_)
decodeURIComponent(s) ==
    IF s = <<>> THEN [ok |-> TRUE, v |-> <<>>]
    ELSE IF Head(s) = "%"
         THEN IF Len(s) >= 3 /\ DecodePair(s[2], s[3]) # "?"
              THEN LET r == decodeURIComponent(SubSeq(s, 4, Len(s)))
                   IN  [ok |-> r.ok, v |-> <<DecodePair(s[2], s[3])>> \o r.v]
              ELSE [ok |-> FALSE, v |-> <<>>]
         ELSE LET r == decodeURIComponent(Tail(s))
              IN  [ok |-> r.ok, v |-> <<Head(s)>> \o r.v]

\* s.replace(/\.md$/, '')
StripMd(s) ==
    IF Len(s) >= 3 /\ SubSeq(s, Len(s) - 2, Len(s)) = <<".", "m", "d">>
    THEN SubSeq(s, 1, Len(s) - 3)
    ELSE s

\* path.basename(filePath, '.md') (POSIX: the separator is "/").
basename(p) ==
    LET parts == SplitSlash(p)
        base  == parts[Len(parts)]
    IN  IF Len(base) > 3 THEN StripMd(base) ELSE base

----------------------------------------------------------------------------
(* Values read from a document *)

\* A front-matter scalar: a string, a number (title: 42) or nothing.
Str(s)  == [t |-> "str", v |-> s]
Num     == [t |-> "num", v |-> <<>>]
Absent  == [t |-> "none", v |-> <<>>]

\* The front-matter keys `aliases` and `alias`: absent, one string, or an array.
NoField     == [t |-> "none", items |-> <<>>]
OneStr(s)   == [t |-> "str", items |-> <<Str(s)>>]
Arr(items)  == [t |-> "arr", items |-> items]

\* What reading a file yields: readable is FALSE when readFileSync throws
\* (missing file, permission error); yamlOk is FALSE when gray-matter throws
\* on the header; links is the result of extractWikiLinks on the raw text.
Doc(title, aliases, alias, links) ==
    [readable |-> TRUE, yamlOk |-> TRUE, title |-> title,
     aliases |-> aliases, alias |-> alias, links |-> links]
NoFile ==
    [readable |-> FALSE, yamlOk |-> TRUE, title |-> Absent,
     aliases |-> NoField, alias |-> NoField, links |-> <<>>]
BadYaml(links) ==
    [readable |-> TRUE, yamlOk |-> FALSE, title |-> Absent,
     aliases |-> NoField, alias |-> NoField, links |-> links]

\* JavaScript truthiness of a front-matter value.
Truthy(x) == \/ x.t = "num"
             \/ x.t = "str" /\ x.v # <<>>

\* extractWikiLinks: the targets of [[Target]] and [[Target|Display]], each
\* trimmed; the raw text is represented by the list of its targets.
extractWikiLinks(content) == [i \in 1..Len(content.links) |-> trim(content.links[i])]

----------------------------------------------------------------------------
(* JavaScript Maps *)

EmptyMap == [x \in {} |-> <<>>]
MapHas(f, k) == k \in DOMAIN f
MapSet(f, k, v) == [x \in (DOMAIN f) \cup {k} |-> IF x = k THEN v ELSE f[x]]
MapDelete(f, k) == [x \in (DOMAIN f) \ {k} |-> f[x]]

\* pages: a Map iterated by getSlug and getPage, kept in insertion order.
Null == <<"null">>
NullPage == [slug |-> Null, title |-> Absent, path |-> <<>>, aliases |-> <<>>]

Slugs(pg) == {pg[i].slug : i \in 1..Len(pg)}
PagesHas(pg, k) == k \in Slugs(pg)
PagesGet(pg, k) ==
    IF PagesHas(pg, k) THEN pg[CHOOSE i \in 1..Len(pg) : pg[i].slug = k] ELSE NullPage
PagesSet(pg, info) ==
    IF PagesHas(pg, info.slug)
    THEN [i \in 1..Len(pg) |-> IF pg[i].slug = info.slug THEN info ELSE pg[i]]
    ELSE Append(pg, info)
PagesDelete(pg, k) == SelectSeq(pg, LAMBDA x : x.slug # k)

\* The index as one value.
Idx == [pages |-> pages, slugToPath |-> slugToPath, aliasToSlug |-> aliasToSlug,
        titleToSlug |-> titleToSlug, backlinks |-> backlinks,
        forwardLinks |-> forwardLinks]

EmptyIdx == [pages |-> <<>>, slugToPath |-> EmptyMap, aliasToSlug |-> EmptyMap,
             titleToSlug |-> EmptyMap, backlinks |-> EmptyMap,
             forwardLinks |-> EmptyMap]

----------------------------------------------------------------------------
(* VaultIndex *)

pathToSlug(relativePath) ==
    LET parts == SplitSlash(ReplaceBackslash(StripMd(relativePath)))
    IN  JoinSlash([i \in 1..Len(parts) |-> encodeURIComponent(parts[i])])

\* The final path segment of a slug as getSlug compares it.
SlugFileName(slug) ==
    LET parts == SplitSlash(slug)
    IN  toLowerCase(ReplacePct20(parts[Len(parts)]))

LoopMatch(slug, possibleSlug, normalized) ==
    \/ toLowerCase(slug) = toLowerCase(possibleSlug)
    \/ SlugFileName(slug) = normalized

getSlug(ix, linkText) ==
    LET normalized   == toLowerCase(trim(linkText))
        possibleSlug == ReplaceWsRuns(trim(linkText))
        hits == {i \in 1..Len(ix.pages) :
                    LoopMatch(ix.pages[i].slug, possibleSlug, normalized)}
    IN  IF MapHas(ix.aliasToSlug, normalized) THEN ix.aliasToSlug[normalized]
        ELSE IF MapHas(ix.titleToSlug, normalized) THEN ix.titleToSlug[normalized]
        ELSE IF PagesHas(ix.pages, possibleSlug) THEN possibleSlug
        ELSE IF hits # {} THEN ix.pages[SetMin(hits)].slug
        ELSE Null

\* `if (targetSlug)`: null and the empty string are falsy.
TruthySlug(s) == s # Null /\ s # <<>>

\* The alias list indexFile collects from `aliases` and `alias`.
FieldItems(f) == IF f.t \in {"arr", "str"} THEN f.items ELSE <<>>
CollectAliases(content) == FieldItems(content.aliases) \o FieldItems(content.alias)

\* x.toLowerCase() is a TypeError unless x is a string: a loop over aliases
\* stops at the first alias that is not one.
AllStr(aliases) == \A i \in 1..Len(aliases) : aliases[i].t = "str"
StrPrefix(aliases) ==
    LET bad == {i \in 1..Len(aliases) : aliases[i].t # "str"}
    IN  IF bad = {} THEN aliases ELSE SubSeq(aliases, 1, SetMin(bad) - 1)

\* for (alias of aliases) aliasToSlug.set(alias.toLowerCase(), slug)
RECURSIVE RegisterAliases(_, _, _)
RegisterAliases(tbl, aliases, slug) ==
    IF aliases = <<>> \/ Head(aliases).t # "str" THEN tbl
    ELSE RegisterAliases(MapSet(tbl, toLowerCase(Head(aliases).v), slug),
                         Tail(aliases), slug)

\* for (alias of aliases) aliasToSlug.delete(alias.toLowerCase())
DeleteAliases(tbl, aliases) ==
    LET gone == {toLowerCase(StrPrefix(aliases)[i].v) : i \in 1..Len(StrPrefix(aliases))}
    IN  [x \in (DOMAIN tbl) \ gone |-> tbl[x]]

\* indexFile: every exception is caught inside, what was registered before
\* it stays registered.
indexFile(ix, filePath, content) ==
    IF ~content.readable \/ ~content.yamlOk THEN ix
    ELSE LET fileName == basename(filePath)
             slug     == pathToSlug(filePath)
             title    == IF Truthy(content.title) THEN content.title ELSE Str(fileName)
             aliases  == CollectAliases(content)
             pageInfo == [slug |-> slug, title |-> title, path |-> filePath,
                          aliases |-> aliases]
             ix1 == [ix EXCEPT !.pages = PagesSet(@, pageInfo),
                               !.slugToPath = MapSet(@, slug, filePath)]
         IN  IF title.t # "str" THEN ix1
             ELSE [ix1 EXCEPT
                     !.titleToSlug = MapSet(MapSet(@, toLowerCase(title.v), slug),
                                            toLowerCase(fileName), slug),
                     !.aliasToSlug = RegisterAliases(@, aliases, slug)]

\* backlinks.get(targetSlug)?.delete(slug) for every target
DropBacklinks(bl, targets, slug) ==
    [t \in DOMAIN bl |-> IF t \in targets THEN bl[t] \ {slug} ELSE bl[t]]

\* The link pass for one page (build lines 55-73, updateFile lines 190-207).
ResolvedLinks(ix, content) ==
    LET links == extractWikiLinks(content)
    IN  {t \in {getSlug(ix, links[i]) : i \in 1..Len(links)} : TruthySlug(t)}

LinkPage(ix, slug, content) ==
    LET resolvedLinks == ResolvedLinks(ix, content)
    IN  [ix EXCEPT
           !.backlinks = [t \in (DOMAIN @) \cup resolvedLinks |->
                            (IF t \in DOMAIN @ THEN @[t] ELSE {}) \cup
                            (IF t \in resolvedLinks THEN {slug} ELSE {})],
           !.forwardLinks = MapSet(@, slug, resolvedLinks)]

\* updateFile up to its await without the removal of the old backlinks.
UpdateFileSync_KeepsBacklinks(ix, filePath, content) ==
    LET oldSlug == pathToSlug(filePath)
        oldPage == PagesGet(ix.pages, oldSlug)
        ix1 == [ix EXCEPT !.aliasToSlug = DeleteAliases(@, oldPage.aliases)]
        ix2 == [ix1 EXCEPT
                  !.titleToSlug = MapDelete(@, toLowerCase(oldPage.title.v))]
    IN  IF ~PagesHas(ix.pages, oldSlug)
        THEN [ix |-> indexFile(ix, filePath, content), threw |-> FALSE]
        ELSE IF ~AllStr(oldPage.aliases) \/ oldPage.title.t # "str"
             THEN [ix |-> ix1, threw |-> TRUE]
             ELSE [ix |-> indexFile(ix2, filePath, content), threw |-> FALSE]

\* updateFile up to its await: the old entry is unregistered and the file is
\* indexed again.  threw: a TypeError left updateFile before the await.
UpdateFileSync(ix, filePath, content) ==
    LET oldSlug == pathToSlug(filePath)
        oldPage == PagesGet(ix.pages, oldSlug)
        ix1 == [ix EXCEPT !.aliasToSlug = DeleteAliases(@, oldPage.aliases)]
        ix2 == [ix1 EXCEPT
                  !.titleToSlug = MapDelete(@, toLowerCase(oldPage.title.v)),
                  !.backlinks = IF MapHas(ix.forwardLinks, oldSlug)
                                THEN DropBacklinks(@, ix.forwardLinks[oldSlug], oldSlug)
                                ELSE @]
    IN  IF ~PagesHas(ix.pages, oldSlug)
        THEN [ix |-> indexFile(ix, filePath, content), threw |-> FALSE]
        ELSE IF ~AllStr(oldPage.aliases) \/ oldPage.title.t # "str"
             THEN [ix |-> ix1, threw |-> TRUE]
             ELSE [ix |-> indexFile(ix2, filePath, content), threw |-> FALSE]

\* updateFile after its await: the links of the page are rebuilt from a
\* second read of the file, which is not guarded.
UpdateFileLinks(ix, filePath, content) ==
    LET oldSlug == pathToSlug(filePath)
    IN  IF ~PagesHas(ix.pages, oldSlug) THEN [ix |-> ix, threw |-> FALSE]
        ELSE IF ~content.readable THEN [ix |-> ix, threw |-> TRUE]
        ELSE [ix |-> LinkPage(ix, oldSlug, content), threw |-> FALSE]

\* updateFile run to completion on a file that reads the same both times.
updateFile(ix, filePath, content) ==
    LET s == UpdateFileSync(ix, filePath, content)
    IN  IF s.threw THEN s ELSE UpdateFileLinks(s.ix, filePath, content)

\* removeFile without its early return: a path that is not indexed is handled
\* as a page titled by its filename, without aliases.
removeFile_NoEarlyReturn(ix, filePath) ==
    LET slug     == pathToSlug(filePath)
        pageInfo == IF PagesHas(ix.pages, slug) THEN PagesGet(ix.pages, slug)
                    ELSE [slug |-> slug, title |-> Str(basename(filePath)),
                          path |-> filePath, aliases |-> <<>>]
        ix1 == [ix EXCEPT !.aliasToSlug = DeleteAliases(@, pageInfo.aliases)]
        ix2 == [ix1 EXCEPT
                  !.titleToSlug = MapDelete(@, toLowerCase(pageInfo.title.v)),
                  !.slugToPath = MapDelete(@, slug),
                  !.pages = PagesDelete(@, slug),
                  !.backlinks = MapDelete(IF MapHas(ix.forwardLinks, slug)
                                          THEN DropBacklinks(@, ix.forwardLinks[slug], slug)
                                          ELSE @, slug),
                  !.forwardLinks = MapDelete(@, slug)]
    IN  IF ~AllStr(pageInfo.aliases) \/ pageInfo.title.t # "str"
        THEN [ix |-> ix1, threw |-> TRUE]
        ELSE [ix |-> ix2, threw |-> FALSE]

removeFile(ix, filePath) ==
    LET slug     == pathToSlug(filePath)
        pageInfo == PagesGet(ix.pages, slug)
        ix1 == [ix EXCEPT !.aliasToSlug = DeleteAliases(@, pageInfo.aliases)]
        ix2 == [ix1 EXCEPT
                  !.titleToSlug = MapDelete(@, toLowerCase(pageInfo.title.v)),
                  !.slugToPath = MapDelete(@, slug),
                  !.pages = PagesDelete(@, slug),
                  !.backlinks = MapDelete(IF MapHas(ix.forwardLinks, slug)
                                          THEN DropBacklinks(@, ix.forwardLinks[slug], slug)
                                          ELSE @, slug),
                  !.forwardLinks = MapDelete(@, slug)]
    IN  IF ~PagesHas(ix.pages, slug) THEN [ix |-> ix, threw |-> FALSE]
        ELSE IF ~AllStr(pageInfo.aliases) \/ pageInfo.title.t # "str"
             THEN [ix |-> ix1, threw |-> TRUE]
             ELSE [ix |-> ix2, threw |-> FALSE]

\* getPage: ok is FALSE when decodeURIComponent raises.
getPage(ix, slug) ==
    LET ci  == {i \in 1..Len(ix.pages) : toLowerCase(ix.pages[i].slug) = toLowerCase(slug)}
        dec == decodeURIComponent(slug)
        resolved == getSlug(ix, dec.v)
    IN  IF PagesHas(ix.pages, slug) THEN [ok |-> TRUE, page |-> PagesGet(ix.pages, slug)]
        ELSE IF ci # {} THEN [ok |-> TRUE, page |-> ix.pages[SetMin(ci)]]
        ELSE IF ~dec.ok THEN [ok |-> FALSE, page |-> NullPage]
        ELSE IF TruthySlug(resolved) /\ PagesHas(ix.pages, resolved)
             THEN [ok |-> TRUE, page |-> PagesGet(ix.pages, resolved)]
             ELSE [ok |-> TRUE, page |-> NullPage]

\* getBacklinks / getForwardLinks: the stored keys that are still pages.
getBacklinks(ix, slug) ==
    IF ~MapHas(ix.backlinks, slug) THEN {}
    ELSE {PagesGet(ix.pages, s) : s \in ix.backlinks[slug] \cap Slugs(ix.pages)}

\* getForwardLinks without `.filter(p => p !== undefined)`.
getForwardLinks_NoFilter(ix, slug) ==
    IF ~MapHas(ix.forwardLinks, slug) THEN {}
    ELSE {PagesGet(ix.pages, s) : s \in ix.forwardLinks[slug]}

getForwardLinks(ix, slug) ==
    IF ~MapHas(ix.forwardLinks, slug) THEN {}
    ELSE {PagesGet(ix.pages, s) : s \in ix.forwardLinks[slug] \cap Slugs(ix.pages)}

getGraphData(ix) ==
    [nodes |-> {ix.pages[i].slug : i \in 1..Len(ix.pages)},
     edges |-> {<<s, t>> \in (DOMAIN ix.forwardLinks) \X UNION {ix.forwardLinks[k] : k \in DOMAIN ix.forwardLinks} :
                  t \in ix.forwardLinks[s]}]

\* search: ok is FALSE when toLowerCase is called on a title or an alias that
\* is not a string.
Includes(s, sub) == \E i \in 0..(Len(s) - Len(sub)) : SubSeq(s, i + 1, i + Len(sub)) = sub
StartsWith(s, sub) == Len(sub) <= Len(s) /\ SubSeq(s, 1, Len(sub)) = sub

RECURSIVE AliasScore(_, _)
AliasScore(aliases, normalized) ==
    IF aliases = <<>> THEN 0
    ELSE LET a == toLowerCase(Head(aliases).v)
         IN  (IF Includes(a, normalized)
              THEN 75 + (IF a = normalized THEN 50 ELSE 0)
              ELSE 0) + AliasScore(Tail(aliases), normalized)

Score(page, normalized) ==
    LET title == toLowerCase(page.title.v)
    IN  (IF Includes(title, normalized)
         THEN 100 + (IF title = normalized THEN 50 ELSE 0)
                  + (IF StartsWith(title, normalized) THEN 25 ELSE 0)
         ELSE 0)
        + AliasScore(page.aliases, normalized)
        + (IF Includes(toLowerCase(page.path), normalized) THEN 25 ELSE 0)

\* Array.prototype.sort with (a, b) => b.score - a.score is stable.
RECURSIVE SortByScore(_)
SortByScore(rs) ==
    IF rs = <<>> THEN <<>>
    ELSE LET best == SetMax({rs[i].score : i \in 1..Len(rs)})
             i    == SetMin({j \in 1..Len(rs) : rs[j].score = best})
         IN  <<rs[i]>> \o SortByScore(SubSeq(rs, 1, i - 1) \o SubSeq(rs, i + 1, Len(rs)))

search(ix, query, limit) ==
    LET normalized == trim(toLowerCase(query))
        scored == [i \in 1..Len(ix.pages) |->
                     [page |-> ix.pages[i], score |-> Score(ix.pages[i], normalized)]]
        sorted == SortByScore(SelectSeq(scored, LAMBDA r : r.score > 0))
        n      == IF limit < Len(sorted) THEN limit ELSE Len(sorted)
    IN  IF \E i \in 1..Len(ix.pages) :
              ix.pages[i].title.t # "str" \/ ~AllStr(ix.pages[i].aliases)
        THEN [ok |-> FALSE, results |-> <<>>]
        ELSE [ok |-> TRUE, results |-> [i \in 1..n |-> sorted[i].page]]

----------------------------------------------------------------------------
(* The vault and what its files can hold *)

sA  == <<"A">>
sLa == <<"a">>
sS  == <<"S">>
sDA == <<"d", "/", "A">>

MdFile(name) == name \o <<".", "m", "d">>

\* Relative paths of the markdown files the vault can hold.
Paths == {MdFile(sA), MdFile(sLa), MdFile(sDA)}

\* Reference texts: what getSlug and getPage are asked for.
LinkTexts == {sA, sLa, sS, sDA}

Plain(links) == Doc(Absent, NoField, NoField, links)

\* What each file of the vault can hold: no front matter (with or without a
\* link), a title, aliases (array form, single-string form), a title that is
\* a number, an alias array holding a number, a header that does not parse.
Holds(p) ==
    IF p = MdFile(sA)
    THEN { Plain(<<>>), Plain(<<sS>>),
           Doc(Absent, Arr(<<Str(sS)>>), NoField, <<>>),
           Doc(Absent, Arr(<<Str(sS), Num>>), NoField, <<>>) }
    ELSE IF p = MdFile(sDA)
    THEN { Plain(<<>>), Plain(<<sLa>>),
           Doc(Str(sS), NoField, NoField, <<>>),
           Doc(Num, NoField, NoField, <<>>) }
    ELSE { Plain(<<>>),
           Doc(Absent, NoField, OneStr(sS), <<sDA>>),
           BadYaml(<<>>) }

Contents == UNION {Holds(p) : p \in Paths}

Reads(p) == Holds(p) \cup {NoFile}

\* Other files a vault tree can hold: a markdown file in a hidden directory,
\* a hidden markdown file, a file that is not markdown.
sHA  == <<".", "h", "/", "A">>
sDHA == <<"d", "/", ".", "A">>
TxtFile == <<"A", ".", "t", "x", "t">>
TreePaths == Paths \cup {MdFile(sHA), MdFile(sDHA), TxtFile}

\* entry.startsWith('.') for an entry on the way to the file
Hidden(p) ==
    LET parts == SplitSlash(p)
    IN  \E i \in 1..Len(parts) : StartsWith(parts[i], <<".">>)

\* entry.endsWith('.md')
EndsWithMd(p) ==
    Len(p) >= 3 /\ SubSeq(p, Len(p) - 2, Len(p)) = <<".", "m", "d">>

\* indexDirectory: the files of the tree that are passed to indexFile; an
\* entry starting with '.' is skipped with everything below it, and of the
\* other files only those ending in '.md' are indexed.
indexDirectory(tree) == {p \in tree : ~Hidden(p) /\ EndsWithMd(p)}

----------------------------------------------------------------------------
(* The daemon: its registered vaults and startVault *)

\* The registered autostart vaults.
Vaults == {"v1", "v2"}

\* What startVault finds on disk for a vault: "gone" when the vault is not
\* initialized or its config cannot be read, "tunnel" when the config names
\* a tunnel and the tunnel config file exists, "plain" otherwise.
DirStates == {"gone", "plain", "tunnel"}

\* An entry of runningVaults: "absent", or a RunningVault record whose
\* tunnelProcess field is set ("tunnel") or undefined ("plain").
EntryStates == {"absent", "plain", "tunnel"}

\* startVault that never forks a server.
startVault_NoFork(rv, tu, vaultPath, dir) ==
    [rv |-> rv, tu |-> tu, ok |-> FALSE]

\* startVault: returns false for a vault that is not initialized or has no
\* readable config; otherwise forks the server, spawns the tunnel when it
\* is configured, and stores the record under vaultPath.
startVault(rv, tu, vaultPath, dir) ==
    IF dir = "gone" THEN [rv |-> rv, tu |-> tu, ok |-> FALSE]
    ELSE [rv |-> [rv EXCEPT ![vaultPath] = dir],
          tu |-> [tu EXCEPT ![vaultPath] = (dir = "tunnel")],
          ok |-> TRUE]

----------------------------------------------------------------------------
(* The state machine *)

\* Watcher events handled after the build.
MaxEvents == 2

Install(ix) ==
    /\ pages' = ix.pages
    /\ slugToPath' = ix.slugToPath
    /\ aliasToSlug' = ix.aliasToSlug
    /\ titleToSlug' = ix.titleToSlug
    /\ backlinks' = ix.backlinks
    /\ forwardLinks' = ix.forwardLinks

\* last: the handler that ran last, whether its page was indexed when it
\* started (had) and whether it raised (threw).
Op(op, path, had, threw) == [op |-> op, path |-> path, had |-> had, threw |-> threw]
Had(p) == PagesHas(pages, pathToSlug(p))

Init ==
    /\ pages = <<>>
    /\ slugToPath = EmptyMap
    /\ aliasToSlug = EmptyMap
    /\ titleToSlug = EmptyMap
    /\ backlinks = EmptyMap
    /\ forwardLinks = EmptyMap
    /\ phase = "new"
    /\ pending = <<>>
    /\ last = Op("none", <<>>, FALSE, FALSE)
    /\ handled = 0
    /\ daemonUp = FALSE
    /\ vaultDir = [v \in Vaults |-> "tunnel"]
    /\ runningVaults = [v \in Vaults |-> "absent"]
    /\ tunnelUp = [v \in Vaults |-> FALSE]
    /\ restartTimers = [v \in Vaults |-> 0]
    /\ tunnelTimers = [v \in Vaults |-> 0]

\* build, first pass: indexDirectory visits the files in readdir order.
RECURSIVE IndexAll(_, _, _)
IndexAll(ix, order, fs) ==
    IF order = <<>> THEN ix
    ELSE IndexAll(indexFile(ix, Head(order), fs[Head(order)]), Tail(order), fs)

\* build, second pass over pages in insertion order; reading a page's file
\* again is not guarded.
RECURSIVE LinkAll(_, _, _)
LinkAll(ix, todo, fs) ==
    IF todo = <<>> THEN [ix |-> ix, threw |-> FALSE]
    ELSE IF ~fs[Head(todo).path].readable THEN [ix |-> ix, threw |-> TRUE]
    ELSE LinkAll(LinkPage(ix, Head(todo).slug, fs[Head(todo).path]), Tail(todo), fs)

build(order, fs1, fs2) ==
    LET ix1 == IndexAll(EmptyIdx, order, fs1)
    IN  LinkAll(ix1, ix1.pages, fs2)

Orders(S) == {o \in [1..Cardinality(S) -> S] : \A i, j \in 1..Cardinality(S) : o[i] = o[j] => i = j}

\* startServer: the index is built once, before the watcher and the server
\* start.  present: the files of the vault tree that indexDirectory passes to
\* indexFile; gone: those that became unreadable between the two passes.
Build ==
    /\ phase = "new"
    /\ \E present \in {indexDirectory(tree) : tree \in SUBSET TreePaths} :
         \E order \in Orders(present), fs1 \in {f \in [present -> Contents] : \A p \in present : f[p] \in Holds(p)}, gone \in {g \in SUBSET present : Cardinality(g) <= 1} :
            LET fs2 == [p \in present |-> IF p \in gone THEN NoFile ELSE fs1[p]]
                r   == build(order, fs1, fs2)
            IN  /\ Install(r.ix)
                /\ phase' = IF r.threw THEN "failed" ELSE "ready"
                /\ last' = Op("build", <<>>, FALSE, r.threw)
    /\ UNCHANGED <<pending, handled>>
    /\ UNCHANGED dvars

\* The watcher's 'add' / 'change' handler, run to completion: updateFile on
\* a file that reads the same before and after the await.
Update ==
    /\ phase = "ready"
    /\ pending = <<>>
    /\ handled < MaxEvents
    /\ handled' = handled + 1
    /\ \E p \in Paths : \E c \in Reads(p) :
          LET r == updateFile(Idx, p, c)
          IN  /\ Install(r.ix)
              /\ last' = Op("update", p, Had(p), r.threw)
    /\ UNCHANGED <<phase, pending>>
    /\ UNCHANGED dvars

\* The watcher's 'unlink' handler.
Remove ==
    /\ phase = "ready"
    /\ pending = <<>>
    /\ handled < MaxEvents
    /\ handled' = handled + 1
    /\ \E p \in Paths :
          LET r == removeFile(Idx, p)
          IN  /\ Install(r.ix)
              /\ last' = Op("remove", p, Had(p), r.threw)
    /\ UNCHANGED <<phase, pending>>
    /\ UNCHANGED dvars

\* Handlers run one at a time, each to completion.
Next == Build \/ Update \/ Remove

Spec == Init /\ [][Next]_vars

\* getSlug as if its loop over the pages could stop at any matching page.
getSlugAnswers_AnyOrder(ix, linkText) ==
    LET normalized   == toLowerCase(trim(linkText))
        possibleSlug == ReplaceWsRuns(trim(linkText))
        hits == {i \in 1..Len(ix.pages) :
                    LoopMatch(ix.pages[i].slug, possibleSlug, normalized)}
    IN  IF MapHas(ix.aliasToSlug, normalized) THEN {ix.aliasToSlug[normalized]}
        ELSE IF MapHas(ix.titleToSlug, normalized) THEN {ix.titleToSlug[normalized]}
        ELSE IF PagesHas(ix.pages, possibleSlug) THEN {possibleSlug}
        ELSE IF hits # {} THEN {ix.pages[i].slug : i \in hits}
        ELSE {Null}

\* What a call of getSlug returns.
getSlugAnswers(ix, linkText) == {getSlug(ix, linkText)}

\* A reader resolves a reference text (resolveLink): getSlug only reads
\* the Maps of the index.
Resolve ==
    /\ phase = "ready"
    /\ pending = <<>>
    /\ \E text \in LinkTexts : \E key \in getSlugAnswers(Idx, text) :
          last' = [op |-> "getSlug", path |-> text, had |-> FALSE, threw |-> FALSE,
                   key |-> key]
    /\ UNCHANGED <<pages, slugToPath, aliasToSlug, titleToSlug, backlinks,
                   forwardLinks, phase, pending, handled>>
    /\ UNCHANGED dvars

\* The handlers and the readers that resolve references.
NextQuery == Build \/ Update \/ Remove \/ Resolve

SpecQuery == Init /\ [][NextQuery]_vars

\* The same handler in its two halves.  UpdateBegin runs updateFile up to its
\* await and leaves the continuation in pending; between the halves the
\* event loop runs other callbacks and the file can change on disk.
UpdateBegin ==
    /\ phase = "ready"
    /\ pending = <<>>
    /\ handled < MaxEvents
    /\ handled' = handled + 1
    /\ \E p \in Paths : \E c \in Reads(p) :
          LET r == UpdateFileSync(Idx, p, c)
          IN  /\ Install(r.ix)
              /\ pending' = IF r.threw THEN <<>>
                             ELSE <<[path |-> p, content |-> c, had |-> Had(p)]>>
              /\ last' = IF r.threw THEN Op("update", p, Had(p), TRUE) ELSE last
    /\ UNCHANGED phase
    /\ UNCHANGED dvars

\* The rest of the handler, after the await; the file is read a second time.
UpdateFinish ==
    /\ pending # <<>>
    /\ \E c \in Reads(pending[1].path) :
          LET r == UpdateFileLinks(Idx, pending[1].path, c)
          IN  /\ Install(r.ix)
              /\ last' = Op("update", pending[1].path, pending[1].had, r.threw)
    /\ pending' = Tail(pending)
    /\ UNCHANGED <<phase, handled>>
    /\ UNCHANGED dvars

NextAwait == Build \/ UpdateBegin \/ UpdateFinish \/ Remove

SpecAwait == Init /\ [][NextAwait]_vars

\* The watcher's handlers are independent async callbacks and nothing in
\* VaultWatcher or VaultIndex makes one wait for another: a notification
\* that is delivered while an updateFile is suspended at its await runs its
\* handler at once.  pending holds the suspended continuations in the order
\* in which they resume.
UpdateBeginOverlapping ==
    /\ phase = "ready"
    /\ handled < MaxEvents
    /\ handled' = handled + 1
    /\ \E p \in Paths : \E c \in Reads(p) :
          LET r == UpdateFileSync(Idx, p, c)
          IN  /\ Install(r.ix)
              /\ pending' = IF r.threw THEN pending
                             ELSE Append(pending, [path |-> p, content |-> c, had |-> Had(p)])
              /\ last' = IF r.threw THEN Op("update", p, Had(p), TRUE) ELSE last
    /\ UNCHANGED phase
    /\ UNCHANGED dvars

\* The 'unlink' handler, which has no await, delivered at any time.
RemoveOverlapping ==
    /\ phase = "ready"
    /\ handled < MaxEvents
    /\ handled' = handled + 1
    /\ \E p \in Paths :
          LET r == removeFile(Idx, p)
          IN  /\ Install(r.ix)
              /\ last' = Op("remove", p, Had(p), r.threw)
    /\ UNCHANGED <<phase, pending>>
    /\ UNCHANGED dvars

NextOverlap == Build \/ UpdateBeginOverlapping \/ UpdateFinish \/ RemoveOverlapping

SpecOverlap == Init /\ [][NextOverlap]_vars

----------------------------------------------------------------------------
(* The daemon: supervision of the vault servers and their tunnels *)

\* Timers of one kind that can be pending for one vault.
MaxTimers == 1

\* startDaemon: starts every registered autostart vault in turn, then
\* installs the periodic health check.
RECURSIVE StartAll(_, _, _, _)
StartAll(rv, tu, todo, dirs) ==
    IF todo = {} THEN [rv |-> rv, tu |-> tu]
    ELSE LET v == CHOOSE x \in todo : TRUE
             r == startVault(rv, tu, v, dirs[v])
         IN  StartAll(r.rv, r.tu, todo \ {v}, dirs)

startDaemon ==
    /\ ~daemonUp
    /\ daemonUp' = TRUE
    /\ LET r == StartAll(runningVaults, tunnelUp, Vaults, vaultDir)
       IN  /\ runningVaults' = r.rv
           /\ tunnelUp' = r.tu
    /\ last' = Op("startDaemon", <<>>, FALSE, FALSE)
    /\ UNCHANGED <<vaultDir, restartTimers, tunnelTimers>>
    /\ UNCHANGED ivars

\* The vault directory changes under the daemon: the vault is removed or
\* initialized again, its tunnel configured or not.
DirChange ==
    /\ \E v \in Vaults : \E d \in DirStates \ {vaultDir[v]} :
          vaultDir' = [vaultDir EXCEPT ![v] = d]
    /\ UNCHANGED <<daemonUp, runningVaults, tunnelUp, restartTimers, tunnelTimers, last>>
    /\ UNCHANGED ivars

\* A server process exits; its 'exit' handler kills the tunnel process of
\* the vault's record (whose own 'exit' handler then schedules its timer),
\* deletes the record and schedules the restart.
ServerExit ==
    /\ daemonUp
    /\ \E v \in Vaults :
          /\ runningVaults[v] # "absent"
          /\ restartTimers[v] < MaxTimers
          /\ tunnelUp[v] => tunnelTimers[v] < MaxTimers
          /\ runningVaults' = [runningVaults EXCEPT ![v] = "absent"]
          /\ tunnelUp' = [tunnelUp EXCEPT ![v] = FALSE]
          /\ tunnelTimers' = [tunnelTimers EXCEPT ![v] = IF tunnelUp[v] THEN @ + 1 ELSE @]
          /\ restartTimers' = [restartTimers EXCEPT ![v] = @ + 1]
          /\ last' = Op("serverExit", <<v>>, TRUE, FALSE)
    /\ UNCHANGED <<daemonUp, vaultDir>>
    /\ UNCHANGED ivars

\* The timer of the server's 'exit' handler fires: the vault is started
\* unless a record is there again.
RestartTimer ==
    /\ \E v \in Vaults :
          /\ restartTimers[v] > 0
          /\ restartTimers' = [restartTimers EXCEPT ![v] = @ - 1]
          /\ LET r == IF runningVaults[v] = "absent"
                      THEN startVault(runningVaults, tunnelUp, v, vaultDir[v])
                      ELSE [rv |-> runningVaults, tu |-> tunnelUp, ok |-> FALSE]
             IN  /\ runningVaults' = r.rv
                 /\ tunnelUp' = r.tu
                 /\ last' = Op("restartTimer", <<v>>, runningVaults[v] # "absent", ~r.ok)
    /\ UNCHANGED <<daemonUp, vaultDir, tunnelTimers>>
    /\ UNCHANGED ivars

\* A tunnel process exits on its own; its 'exit' handler schedules a timer.
TunnelExit ==
    /\ daemonUp
    /\ \E v \in Vaults :
          /\ tunnelUp[v]
          /\ tunnelTimers[v] < MaxTimers
          /\ tunnelUp' = [tunnelUp EXCEPT ![v] = FALSE]
          /\ tunnelTimers' = [tunnelTimers EXCEPT ![v] = @ + 1]
          /\ last' = Op("tunnelExit", <<v>>, TRUE, FALSE)
    /\ UNCHANGED <<daemonUp, vaultDir, runningVaults, restartTimers>>
    /\ UNCHANGED ivars

\* The timer of the tunnel's 'exit' handler fires: startVault is called
\* when the vault has a record whose tunnelProcess field is not set.
TunnelTimer ==
    /\ \E v \in Vaults :
          /\ tunnelTimers[v] > 0
          /\ tunnelTimers' = [tunnelTimers EXCEPT ![v] = @ - 1]
          /\ LET r == IF runningVaults[v] = "plain"
                      THEN startVault(runningVaults, tunnelUp, v, vaultDir[v])
                      ELSE [rv |-> runningVaults, tu |-> tunnelUp, ok |-> FALSE]
             IN  /\ runningVaults' = r.rv
                 /\ tunnelUp' = r.tu
                 /\ last' = Op("tunnelTimer", <<v>>, runningVaults[v] # "absent", ~r.ok)
    /\ UNCHANGED <<daemonUp, vaultDir, restartTimers>>
    /\ UNCHANGED ivars

\* checkVaultHealth, every 30 s: every registered autostart vault without
\* a record in runningVaults is started.
checkVaultHealth ==
    /\ daemonUp
    /\ LET r == StartAll(runningVaults, tunnelUp,
                         {v \in Vaults : runningVaults[v] = "absent"}, vaultDir)
       IN  /\ runningVaults' = r.rv
           /\ tunnelUp' = r.tu
    /\ last' = Op("checkVaultHealth", <<>>, FALSE, FALSE)
    /\ UNCHANGED <<daemonUp, vaultDir, restartTimers, tunnelTimers>>
    /\ UNCHANGED ivars

NextDaemon ==
    \/ startDaemon \/ DirChange \/ ServerExit \/ RestartTimer
    \/ TunnelExit \/ TunnelTimer \/ checkVaultHealth

\* The event loop of the daemon runs every timer that is due, and the
\* health check comes round again and again.
SpecDaemon ==
    /\ Init
    /\ [][NextDaemon]_vars
    /\ WF_vars(RestartTimer)
    /\ WF_vars(TunnelTimer)
    /\ WF_vars(checkVaultHealth)

----------------------------------------------------------------------------
(* Claims *)

Keys == {pathToSlug(p) : p \in Paths}
Served == phase = "ready" /\ pending = <<>>
LastKey == pathToSlug(last.path)

\* C1: after build() and any sequence of notifications, each run to
\* completion, for all documents a and b of the index, b is among
\* getForwardLinks(a) exactly when a is among getBacklinks(b).
C1_GraphSymmetry ==
    Served =>
        \A a, b \in Slugs(pages) :
            (PagesGet(pages, b) \in getForwardLinks(Idx, a))
                <=> (PagesGet(pages, a) \in getBacklinks(Idx, b))

\* C2: after removeFile for a present document with key k completes, k is
\* neither a key nor a set member of the forwardLinks and backlinks tables.
C2_NoDanglingEdges ==
    (Served /\ last.op = "remove" /\ last.had /\ ~last.threw) =>
        /\ ~MapHas(forwardLinks, LastKey)
        /\ ~MapHas(backlinks, LastKey)
        /\ \A o \in DOMAIN forwardLinks : LastKey \notin forwardLinks[o]
        /\ \A o \in DOMAIN backlinks : LastKey \notin backlinks[o]

\* C3: after a remove notification for key k has been applied, getPage(k)
\* returns nothing, whatever other documents remain in the index.
C3_RemovedPageIsGone ==
    (Served /\ last.op = "remove" /\ ~last.threw) =>
        getPage(Idx, LastKey) = [ok |-> TRUE, page |-> NullPage]

\* What a reader can learn about document k: its page, the reference texts
\* that resolve to it, its forward links and the pages that list it among
\* their backlinks.
ReaderView(ix, k) ==
    [page  |-> getPage(ix, k),
     names |-> {x \in LinkTexts : getSlug(ix, x) = k},
     fwd   |-> getForwardLinks(ix, k),
     back  |-> {t \in Slugs(ix.pages) : PagesGet(ix.pages, k) \in getBacklinks(ix, t)}]

IdxNext == [pages |-> pages', slugToPath |-> slugToPath', aliasToSlug |-> aliasToSlug',
            titleToSlug |-> titleToSlug', backlinks |-> backlinks',
            forwardLinks |-> forwardLinks']

\* C4: a read that executes at the await of an updateFile in progress sees
\* the document either as it was before the update or as it is after it.
C4_ReaderAtomicity ==
    [][(pending = <<>> /\ pending' # <<>>) =>
          LET p == pending'[1].path
              k == pathToSlug(p)
              atAwait == ReaderView(IdxNext, k)
          IN  \/ atAwait = ReaderView(Idx, k)
              \/ atAwait = ReaderView(UpdateFileLinks(IdxNext, p, pending'[1].content).ix, k)
      ]_vars

\* Everything the index stores about key k.
KeyState(ix, k) ==
    [page    |-> PagesGet(ix.pages, k),
     path    |-> IF MapHas(ix.slugToPath, k) THEN ix.slugToPath[k] ELSE Null,
     titles  |-> {n \in DOMAIN ix.titleToSlug : ix.titleToSlug[n] = k},
     aliases |-> {n \in DOMAIN ix.aliasToSlug : ix.aliasToSlug[n] = k},
     fwd     |-> IF MapHas(ix.forwardLinks, k) THEN ix.forwardLinks[k] ELSE {Null},
     contrib |-> {t \in DOMAIN ix.backlinks : k \in ix.backlinks[t]}]

\* C5: when reading the file fails while updateFile processes an indexed
\* path, the catalog entry, the title and alias entries, the forward links
\* and the backlink contributions of its key are what they were before.
C5_IoFailureLeavesKey ==
    Served =>
        \A p \in Paths :
            PagesHas(pages, pathToSlug(p)) =>
                KeyState(updateFile(Idx, p, NoFile).ix, pathToSlug(p))
                    = KeyState(Idx, pathToSlug(p))

FullyPresent(ix, k) ==
    LET page == PagesGet(ix.pages, k)
    IN  /\ PagesHas(ix.pages, k)
        /\ MapHas(ix.slugToPath, k)
        /\ page.title.t = "str"
        /\ MapHas(ix.titleToSlug, toLowerCase(page.title.v))
        /\ MapHas(ix.titleToSlug, toLowerCase(basename(page.path)))
        /\ \A i \in 1..Len(page.aliases) :
              /\ page.aliases[i].t = "str"
              /\ MapHas(ix.aliasToSlug, toLowerCase(page.aliases[i].v))

FullyAbsent(ix, k) ==
    /\ ~PagesHas(ix.pages, k)
    /\ ~MapHas(ix.slugToPath, k)
    /\ \A n \in DOMAIN ix.titleToSlug : ix.titleToSlug[n] # k
    /\ \A n \in DOMAIN ix.aliasToSlug : ix.aliasToSlug[n] # k

\* C6: in every state a reader can observe, each key is either fully present
\* (catalog, path, title, filename and alias entries) or fully absent.
C6_NeverPartiallyPresent ==
    Served => \A k \in Keys : FullyPresent(Idx, k) \/ FullyAbsent(Idx, k)

\* search's default limit.
DefaultLimit == 20

\* C7: build() completes whatever the documents hold, and afterwards every
\* query returns a result instead of raising.
C7_NothingAbortsTheIndex ==
    /\ phase # "failed"
    /\ Served =>
          /\ \A q \in LinkTexts : search(Idx, q, DefaultLimit).ok
          /\ \A k \in Keys : getPage(Idx, k).ok

\* The keys the fallback chain allows for a reference text: those of the
\* first rule, in the order 1..5, that matches.
ChainResult(ix, text) ==
    LET normalized   == toLowerCase(trim(text))
        possibleSlug == ReplaceWsRuns(trim(text))
        rule4 == {k \in Slugs(ix.pages) : toLowerCase(k) = toLowerCase(possibleSlug)}
        rule5 == {k \in Slugs(ix.pages) : SlugFileName(k) = normalized}
    IN  IF MapHas(ix.aliasToSlug, normalized) THEN {ix.aliasToSlug[normalized]}
        ELSE IF MapHas(ix.titleToSlug, normalized) THEN {ix.titleToSlug[normalized]}
        ELSE IF PagesHas(ix.pages, possibleSlug) THEN {possibleSlug}
        ELSE IF rule4 # {} THEN rule4
        ELSE IF rule5 # {} THEN rule5
        ELSE {Null}

\* C8: getSlug returns the key found by the first matching rule in the order
\* alias, title, literal key, case-insensitive key, case-insensitive final
\* path segment, and nothing if no rule matches.
C8_FallbackOrder ==
    Served => \A text \in LinkTexts : getSlug(Idx, text) \in ChainResult(Idx, text)

Declares(page, s) ==
    \E i \in 1..Len(page.aliases) :
        page.aliases[i].t = "str" /\ toLowerCase(trim(page.aliases[i].v)) = toLowerCase(trim(s))
Named(page, s) ==
    \/ page.title.t = "str" /\ toLowerCase(trim(page.title.v)) = toLowerCase(trim(s))
    \/ toLowerCase(basename(page.path)) = toLowerCase(trim(s))

\* C9: if document X (and no other) declares alias s and a different
\* document Y has title or filename s, getSlug(s) returns X's key.
C9_AliasPrecedence ==
    Served =>
        \A i, j \in 1..Len(pages) : \A s \in LinkTexts :
            ( /\ i # j
              /\ Declares(pages[i], s)
              /\ \A m \in 1..Len(pages) : Declares(pages[m], s) => m = i
              /\ Named(pages[j], s) )
            => getSlug(Idx, s) = pages[i].slug

\* C10: applying updateFile twice in a row on unchanged file content yields
\* the same index state as applying it once.
C10_IdempotentReindex ==
    Served =>
        \A p \in Paths : \A c \in Reads(p) :
            updateFile(updateFile(Idx, p, c).ix, p, c).ix = updateFile(Idx, p, c).ix

\* The documents of the link scenarios: T is the title S of d/A.md, and the
\* body of A.md holds the reference [[S]].
TitledPath == MdFile(sDA)
TitledDoc  == Doc(Str(sS), NoField, NoField, <<>>)
LinkerPath == MdFile(sA)
LinkerDoc  == Plain(<<sS>>)
NobodyClaims(ix, s) ==
    /\ \A i \in 1..Len(ix.pages) : ~Declares(ix.pages[i], s) /\ ~Named(ix.pages[i], s)
    /\ ~MapHas(ix.aliasToSlug, toLowerCase(s))
    /\ ~MapHas(ix.titleToSlug, toLowerCase(s))

Linked(ix) ==
    /\ getForwardLinks(ix, pathToSlug(LinkerPath)) = {PagesGet(ix.pages, pathToSlug(TitledPath))}
    /\ getBacklinks(ix, pathToSlug(TitledPath)) = {PagesGet(ix.pages, pathToSlug(LinkerPath))}

\* C11: when a document titled T and a document whose body holds [[T]] are
\* both indexed and no other document claims T, each is the other's only
\* forward link / backlink, whether they were indexed by build() or by add
\* notifications in either order.
C11_LinkCreation ==
    /\ \A order \in Orders({TitledPath, LinkerPath}) :
          LET fs == [p \in {TitledPath, LinkerPath} |->
                        IF p = TitledPath THEN TitledDoc ELSE LinkerDoc]
          IN  Linked(build(order, fs, fs).ix)
    /\ (Served /\ ~PagesHas(pages, pathToSlug(TitledPath))
               /\ ~PagesHas(pages, pathToSlug(LinkerPath))
               /\ NobodyClaims(Idx, sS)) =>
          /\ Linked(updateFile(updateFile(Idx, TitledPath, TitledDoc).ix,
                               LinkerPath, LinkerDoc).ix)
          /\ Linked(updateFile(updateFile(Idx, LinkerPath, LinkerDoc).ix,
                               TitledPath, TitledDoc).ix)

\* Document k referenced document t when it was last indexed.
Referenced(ix, k, t) ==
    \/ MapHas(ix.forwardLinks, k) /\ t \in ix.forwardLinks[k]
    \/ MapHas(ix.backlinks, t) /\ k \in ix.backlinks[t]

NoMatch(ix, text) ==
    \A i \in 1..Len(ix.pages) :
        /\ ~Declares(ix.pages[i], text)
        /\ ~Named(ix.pages[i], text)
        /\ ~LoopMatch(ix.pages[i].slug, ReplaceWsRuns(trim(text)), toLowerCase(trim(text)))

\* A document S.md with another title that was added and removed again.
StrayPath == MdFile(sS)
StrayDoc  == Doc(Str(sA), NoField, NoField, <<>>)
AfterStray(ix) == removeFile(updateFile(ix, StrayPath, StrayDoc).ix, StrayPath).ix

\* C13: when a document holds a reference whose text matches no key, title
\* or alias of any document, getSlug returns nothing for it, indexing the
\* document completes without raising, and the reference creates no forward
\* or backlink edge.
C13_UnresolvedReferences ==
    Served =>
        \A ix0 \in {Idx, AfterStray(Idx)} : \A p \in Paths : \A c \in Holds(p) :
            LET r       == updateFile(ix0, p, c)
                k       == pathToSlug(p)
                links   == extractWikiLinks(c)
                lost    == {i \in 1..Len(links) : NoMatch(r.ix, links[i])}
                matched == {getSlug(r.ix, links[i]) : i \in (1..Len(links)) \ lost}
            IN  lost # {} =>
                    /\ \A i \in lost : getSlug(r.ix, links[i]) = Null
                    /\ ~r.threw
                    /\ MapHas(r.ix.forwardLinks, k) /\ r.ix.forwardLinks[k] \subseteq matched
                    /\ \A t \in DOMAIN r.ix.backlinks :
                          k \in r.ix.backlinks[t] => t \in matched

\* Queries that are empty or hold only white space.
BlankQueries == {<<>>, <<" ">>, <<" ", " ">>}

\* C14: whenever the query is empty or consists only of white space, what
\* VaultIndex.search returns is the empty sequence, in every index state.
C14_BlankQueryFindsNothing ==
    Served =>
        \A q \in BlankQueries :
            search(Idx, q, DefaultLimit).ok => search(Idx, q, DefaultLimit).results = <<>>

\* Queries put to search: the reference texts and a fragment of ".md".
Queries == LinkTexts \cup {<<"m">>}

\* Ascending order of titles, compared case-insensitively.
Rank(c) ==
    CASE c = "a" -> 1
      [] c = "d" -> 2
      [] c = "f" -> 3
      [] c = "m" -> 4
      [] c = "s" -> 5
      [] OTHER -> 0
RECURSIVE LexLeq(_, _)
LexLeq(s, t) ==
    IF s = <<>> THEN TRUE
    ELSE IF t = <<>> THEN FALSE
    ELSE IF Rank(Head(s)) # Rank(Head(t)) THEN Rank(Head(s)) < Rank(Head(t))
    ELSE LexLeq(Tail(s), Tail(t))
TitleLeq(p, q) == LexLeq(toLowerCase(p.title.v), toLowerCase(q.title.v))

\* C15: search results are sorted by score descending, and two results with
\* equal score appear in ascending case-insensitive title order, whatever the
\* order in which the documents were inserted into the catalog.
C15_SearchOrdering ==
    Served =>
        \A q \in Queries :
            LET r == search(Idx, q, DefaultLimit)
                n == trim(toLowerCase(q))
            IN  r.ok =>
                  \A i, j \in 1..Len(r.results) :
                      i < j =>
                        \/ Score(r.results[i], n) > Score(r.results[j], n)
                        \/ /\ Score(r.results[i], n) = Score(r.results[j], n)
                           /\ TitleLeq(r.results[i], r.results[j])

\* A.md with the alias S under both front-matter keys, `aliases` and `alias`.
TwiceAliased == Doc(Absent, Arr(<<Str(sS)>>), OneStr(sS), <<>>)

\* The score as the scoring rule states it: the alias bonuses count once per
\* document.
RuleScore(page, normalized) ==
    LET title == toLowerCase(page.title.v)
        hit(i) == Includes(toLowerCase(page.aliases[i].v), normalized)
        same(i) == toLowerCase(page.aliases[i].v) = normalized
    IN  (IF Includes(title, normalized)
         THEN 100 + (IF title = normalized THEN 50 ELSE 0)
                  + (IF StartsWith(title, normalized) THEN 25 ELSE 0)
         ELSE 0)
        + (IF \E i \in 1..Len(page.aliases) : hit(i)
           THEN 75 + (IF \E i \in 1..Len(page.aliases) : same(i) THEN 50 ELSE 0)
           ELSE 0)
        + (IF Includes(toLowerCase(page.path), normalized) THEN 25 ELSE 0)

\* C16: search ranks by the score +100 / +50 / +25 for the title, +75 / +50
\* once per document for its aliases and +25 for the path; it leaves out the
\* documents that score 0 and returns at most `limit` documents.
C16_SearchScoring ==
    Served =>
        \A ix0 \in {Idx, updateFile(Idx, MdFile(sA), TwiceAliased).ix} :
        \A q \in Queries : \A limit \in {1, DefaultLimit} :
            LET r     == search(ix0, q, limit)
                n     == trim(toLowerCase(q))
                found == {r.results[i] : i \in 1..Len(r.results)}
                rest  == {ix0.pages[i] : i \in 1..Len(ix0.pages)} \ found
            IN  r.ok =>
                  /\ Len(r.results) <= limit
                  /\ \A pg \in found : RuleScore(pg, n) > 0
                  /\ \A i, j \in 1..Len(r.results) :
                        i < j => RuleScore(r.results[i], n) >= RuleScore(r.results[j], n)
                  /\ \A pg \in rest :
                        \/ RuleScore(pg, n) = 0
                        \/ /\ Len(r.results) = limit
                           /\ \A f \in found : RuleScore(pg, n) <= RuleScore(f, n)

\* C17: removeFile for a path whose key is absent from the catalog leaves
\* catalog, path table, title table, alias table, forward links and
\* backlinks unchanged.
C17_RemoveAbsentIsNoOp ==
    [][(last'.op = "remove" /\ ~last'.had) => (IdxNext = Idx /\ ~last'.threw)]_vars

\* An unlink notification for a path that was not indexed has been handled
\* while the index held other documents.
C17_Witness ==
    /\ Served /\ last.op = "remove" /\ ~last.had
    /\ pages # <<>> /\ titleToSlug # EmptyMap /\ forwardLinks # EmptyMap

\* C18: getBacklinks(k) and getForwardLinks(k) return only documents that are
\* in the catalog at call time, and never a null element.
C18_LinksAreCurrentPages ==
    Served =>
        \A k \in Keys :
            \A x \in getBacklinks(Idx, k) \cup getForwardLinks(Idx, k) :
                /\ x # NullPage
                /\ PagesHas(pages, x.slug)
                /\ PagesGet(pages, x.slug) = x

\* Document k still stores an edge to a document that was removed after the
\* edge was created, next to an edge to a document that is present.
C18_Witness ==
    /\ Served
    /\ \E k \in Slugs(pages) :
          /\ MapHas(forwardLinks, k)
          /\ \E t \in forwardLinks[k] : ~PagesHas(pages, t)
    /\ \E k \in Slugs(pages) : getForwardLinks(Idx, k) # {}

sDbA == <<"d", "\\", "A">>
PosixPaths == Paths \cup {MdFile(sDbA)}

\* C20: pathToSlug is injective on the relative paths of the documents of a
\* vault, so indexing or removing one document never overwrites or deletes
\* the catalog entry of another.
C20_KeyUniqueness ==
    Served =>
        \A p, q \in PosixPaths :
            p # q =>
              /\ pathToSlug(p) # pathToSlug(q)
              /\ PagesHas(pages, pathToSlug(q)) =>
                    /\ PagesGet(removeFile(Idx, p).ix.pages, pathToSlug(q))
                          = PagesGet(pages, pathToSlug(q))
                    /\ PagesGet(updateFile(Idx, p, Plain(<<>>)).ix.pages, pathToSlug(q))
                          = PagesGet(pages, pathToSlug(q))

\* C22: in every state reachable through build / updateFile / removeFile,
\* every key stored as a value in the title table or in the alias table is
\* the key of a document of the catalog.
C22_NoStaleResolutionEntries ==
    Served =>
        /\ \A n \in DOMAIN titleToSlug : PagesHas(pages, titleToSlug[n])
        /\ \A n \in DOMAIN aliasToSlug : PagesHas(pages, aliasToSlug[n])

\* A page whose title and aliases are all strings.
StringTyped(page) ==
    /\ page.title.t = "str"
    /\ \A j \in 1..Len(page.aliases) : page.aliases[j].t = "str"

\* C23: in every reachable state, for every document d of the catalog the
\* title table has an entry for d's normalized title and for d's normalized
\* filename, and the alias table has an entry for each of d's normalized
\* aliases (asked only while every title and alias of the catalog is a
\* string, so that each has a normalized form, and after a handler that
\* returned without raising).
C23_ResolutionTablesComplete ==
    (Served /\ ~last.threw /\ \A i \in 1..Len(pages) : StringTyped(pages[i])) =>
        \A i \in 1..Len(pages) :
            /\ MapHas(titleToSlug, toLowerCase(pages[i].title.v))
            /\ MapHas(titleToSlug, toLowerCase(basename(pages[i].path)))
            /\ \A j \in 1..Len(pages[i].aliases) :
                  MapHas(aliasToSlug, toLowerCase(pages[i].aliases[j].v))

\* C25: after updateFile on an indexed document whose file holds the same
\* title and aliases as when it was last indexed (and that returned without
\* raising), the title table and the alias table are the same as before the
\* call, in every reachable state.
C25_ReindexKeepsResolution ==
    Served =>
        \A p \in Paths : \A c \in Holds(p) :
            LET k    == pathToSlug(p)
                page == PagesGet(pages, k)
                r    == updateFile(Idx, p, c)
            IN  (/\ PagesHas(pages, k) /\ page.path = p
                 /\ c.yamlOk
                 /\ page.title = (IF Truthy(c.title) THEN c.title ELSE Str(basename(p)))
                 /\ page.aliases = CollectAliases(c)
                 /\ ~r.threw)
                => /\ r.ix.titleToSlug = titleToSlug
                   /\ r.ix.aliasToSlug = aliasToSlug

\* The files of a tree that the catalog is to hold after build(): the '.md'
\* files that can be read and have no hidden path segment.
Eligible(tree, fs) == {p \in tree : EndsWithMd(p) /\ ~Hidden(p) /\ fs[p].readable}

\* C26: when build() is run again on any vault tree after startServer built
\* the index, and returns, the catalog holds exactly one document for each
\* readable '.md' file of the tree none of whose path segments is hidden, and
\* no other entry (build() starts by clearing every table).
C26_BulkBuild ==
    (Served /\ last.op = "build") =>
        \A tree \in SUBSET TreePaths :
            \A order \in Orders(indexDirectory(tree)) :
                \A fs \in {f \in [indexDirectory(tree) -> Contents \cup {NoFile}] :
                              \A p \in indexDirectory(tree) : f[p] \in Reads(p)} :
                    LET r  == build(order, fs, fs)
                        pg == r.ix.pages
                    IN  ~r.threw =>
                          /\ \A p \in Eligible(indexDirectory(tree), fs) :
                                Cardinality({i \in 1..Len(pg) : pg[i].path = p}) = 1
                          /\ \A i \in 1..Len(pg) :
                                pg[i].path \in Eligible(indexDirectory(tree), fs)

\* The stored forward and backlink sets of a key (none stored: empty).
SetAt(tbl, k) == IF MapHas(tbl, k) THEN tbl[k] ELSE {}

\* Two indexes give the same getSlug results and hold the same forward and
\* backlink sets.
SameAnswers(ix1, ix2) ==
    /\ \A t \in LinkTexts : getSlug(ix1, t) = getSlug(ix2, t)
    /\ \A k \in Keys :
          /\ SetAt(ix1.forwardLinks, k) = SetAt(ix2.forwardLinks, k)
          /\ SetAt(ix1.backlinks, k) = SetAt(ix2.backlinks, k)

\* C27: starting from the index of an empty vault, after two files were added
\* one after the other (updateFile per event, neither raising), the index
\* gives the same getSlug results and the same forward and backlink sets as
\* build() run on the final vault contents (in some directory order).
C27_IncrementalAgreesWithRebuild ==
    (Served /\ Idx = EmptyIdx) =>
        \A p1, p2 \in Paths : \A c1 \in Holds(p1), c2 \in Holds(p2) :
            LET u1 == updateFile(Idx, p1, c1)
                u2 == updateFile(u1.ix, p2, c2)
                fs == (p1 :> c1) @@ (p2 :> c2)
            IN  (p1 # p2 /\ ~u1.threw /\ ~u2.threw) =>
                    \E order \in Orders({p1, p2}) :
                        LET b == build(order, fs, fs)
                        IN  ~b.threw /\ SameAnswers(u2.ix, b.ix)

\* C29: in every reachable index state (after a handler that returned without
\* raising), every edge returned by getGraphData has its source and its
\* target among the ids of the nodes returned by the same call.
C29_GraphExportClosed ==
    (Served /\ ~last.threw) =>
        LET g == getGraphData(Idx)
        IN  \A e \in g.edges : e[1] \in g.nodes /\ e[2] \in g.nodes

\* C24: once updateFile for one notification has begun modifying the index
\* and is suspended at its await, the next step of the index is the rest of
\* that updateFile: no step of another notification's updateFile or
\* removeFile comes in between.
C24_WritesSerialized ==
    [][pending # <<>> => (pending' = Tail(pending) /\ handled' = handled)]_vars

\* C28: when the handlers of two notifications have interleaved at
\* updateFile's await and both have finished, a in backlinks[b] implies
\* b in forwardLinks[a], for all keys a and b.
C28_NoPhantomBacklinks ==
    (phase = "ready" /\ pending = <<>>) =>
        \A b \in DOMAIN backlinks : \A a \in backlinks[b] :
            b \in SetAt(forwardLinks, a)

----------------------------------------------------------------------------
(* Claims about the daemon *)

C30_TunnelSupervision ==
    \A v \in Vaults :
        (daemonUp /\ runningVaults[v] = "tunnel" /\ ~tunnelUp[v]
            /\ vaultDir[v] = "tunnel")
        ~> (tunnelUp[v] \/ runningVaults[v] = "absent" \/ vaultDir[v] # "tunnel")

====
